---- MODULE Spec2Model ----
(***************************************************************************)
(* Subscription controller (src/controllers/subscription.controller.js).   *)
(*                                                                         *)
(* State: the Subscription collection (store), the toggle requests that    *)
(* are suspended at one of their awaits (inflight), the response written   *)
(* by the step just taken (resp) and, per (subscriber, channel) pair, the  *)
(* history of its toggles (last: the status of the one that completed most *)
(* recently, how many completed, modulo 2, and whether two of them ever    *)
(* overlapped), which SpecSeq and SpecHist record and Spec leaves alone.   *)
(*                                                                         *)
(* toggleSubscriptionStatus awaits twice (findOne, then deleteOne or       *)
(* create), so it is three steps: ToggleFindOne, ToggleDeleteOne or        *)
(* ToggleCreate, ToggleRespond. The other handlers answer in one step:     *)
(* their answer is a function of the store they read. Spec serves them     *)
(* only when no toggle is suspended (every value the store takes, it takes *)
(* in such a state too); SpecHist serves status checks at any time.        *)
(* A step is taken once the response of the step before it is sent (Send). *)
(*                                                                         *)
(* A string is spelled out, character by character, by Chars; ObjectIds    *)
(* are their 24-digit lower-case hexadecimal form.                         *)
(***************************************************************************)
EXTENDS Integers, Sequences, FiniteSets, Bags, TLC

VARIABLES store, inflight, resp, last

vars == <<store, inflight, resp, last>>

(* ---------------------------------------------------------------- bounds *)

\* documents the Subscription collection may hold
MaxDocs == 2
\* toggle requests suspended at an await at the same time
MaxInflight == 2

(* --------------------------------------------------------------- strings *)

Pad(n, ch) == [i \in 1..n |-> ch]

\* the strings the requests, the User documents and the ObjectIds are made of
Strings == {
    "", "abc", "1", "2", "O", "n", "al", "An", "bo", "Ba",
    "000000000000",
    "00000000000000000000000z",
    "00000000000000000000000a",
    "00000000000000000000000b",
    "00000000000000000000000B",
    "303030303030303030303030",
    "ffffffffffffffffffffffff" }

\* the characters of a string
Chars(s) ==
    CASE s = "" -> <<>>
      [] s = "abc" -> <<"a", "b", "c">>
      [] s = "1" -> <<"1">>
      [] s = "2" -> <<"2">>
      [] s = "O" -> <<"O">>
      [] s = "n" -> <<"n">>
      [] s = "al" -> <<"a", "l">>
      [] s = "An" -> <<"A", "n">>
      [] s = "bo" -> <<"b", "o">>
      [] s = "Ba" -> <<"B", "a">>
      [] s = "000000000000" -> Pad(12, "0")
      [] s = "00000000000000000000000z" -> Pad(23, "0") \o <<"z">>
      [] s = "00000000000000000000000a" -> Pad(23, "0") \o <<"a">>
      [] s = "00000000000000000000000b" -> Pad(23, "0") \o <<"b">>
      [] s = "00000000000000000000000B" -> Pad(23, "0") \o <<"B">>
      [] s = "303030303030303030303030" -> [i \in 1..24 |-> IF i % 2 = 1 THEN "3" ELSE "0"]
      [] s = "ffffffffffffffffffffffff" -> Pad(24, "f")

\* the string with the given characters
Str(chars) == CHOOSE s \in Strings : Chars(s) = chars

HexDigits == {"0", "1", "2", "3", "4", "5", "6", "7", "8", "9",
              "a", "b", "c", "d", "e", "f", "A", "B", "C", "D", "E", "F"}

\* String.prototype.toLowerCase / the "i" option of $regex, on one character
LowerChar(ch) ==
    CASE ch = "A" -> "a" [] ch = "B" -> "b" [] ch = "C" -> "c"
      [] ch = "D" -> "d" [] ch = "E" -> "e" [] ch = "F" -> "f"
      [] ch = "N" -> "n" [] ch = "O" -> "o" [] OTHER -> ch

Lower(s) == [i \in 1..Len(s) |-> LowerChar(s[i])]

\* the two hexadecimal digits of a character's code (a 12-character string is
\* read as the 12 bytes of an ObjectId)
ByteHex(ch) ==
    CASE ch = "0" -> <<"3", "0">> [] ch = "1" -> <<"3", "1">>
      [] ch = "2" -> <<"3", "2">> [] ch = "a" -> <<"6", "1">>
      [] ch = "b" -> <<"6", "2">> [] ch = "c" -> <<"6", "3">>
      [] ch = "B" -> <<"4", "2">> [] ch = "z" -> <<"7", "a">>
      [] OTHER -> <<"3", "f">>

RECURSIVE BytesHex(_)
BytesHex(s) == IF s = <<>> THEN <<>> ELSE ByteHex(Head(s)) \o BytesHex(Tail(s))

(* ------------------------------------------------------------- ObjectIds *)

Null == "null"

\* a request parameter: absent (undefined) or a string
Absent == [given |-> FALSE, str |-> ""]
Given(s) == [given |-> TRUE, str |-> s]

\* JavaScript truthiness of a string parameter: undefined and "" are falsy
Truthy(p) == p.given /\ p.str # ""

\* mongoose.isValidObjectId on a string: 12 characters, or 24 hexadecimal digits
isValidObjectIdAnyDigits(p) == Len(Chars(p.str)) = 12 \/ Len(Chars(p.str)) = 24

isValidObjectId(p) ==
    \/ Len(Chars(p.str)) = 12
    \/ Len(Chars(p.str)) = 24 /\ \A i \in 1..24 : Chars(p.str)[i] \in HexDigits

\* the ObjectId mongoose casts a string to (Null: the cast fails)
CastObjectId(s) ==
    IF Len(Chars(s)) = 24 /\ (\A i \in 1..24 : Chars(s)[i] \in HexDigits)
    THEN Str(Lower(Chars(s)))
    ELSE IF Len(Chars(s)) = 12 THEN Str(BytesHex(Chars(s)))
    ELSE Null

(* ------------------------------------------------------------ User store *)

IdAlice == "00000000000000000000000a"
IdBob == "00000000000000000000000b"

Users == {
    [_id |-> IdAlice, username |-> "al", fullName |-> "An"],
    [_id |-> IdBob, username |-> "bo", fullName |-> "Ba"] }

\* req.user._id of the authenticated requesters
Requesters == {u._id : u \in Users}

\* channelId path parameters the requests carry
ChannelParams == {
    Absent,
    Given(""),
    Given("abc"),
    Given("00000000000000000000000z"),
    Given(IdAlice),
    Given("00000000000000000000000B"),
    Given("000000000000") }

\* the channelId with 12 characters: an ObjectId no User document has
IdGhost == CastObjectId("000000000000")

ChannelIds == {CastObjectId(p.str) : p \in {q \in ChannelParams : Truthy(q)}} \ {Null}

Pairs == Requesters \X ChannelIds

(* ----------------------------------------------------- Subscription store *)

\* what findOne resolves to when no document matches
NullDoc == [isNull |-> TRUE]

\* JavaScript truthiness of what a query resolves to: null is falsy, objects are truthy
IsTruthy(value) == value # NullDoc

\* the filter { channel, subscriber } of findOne
MatchingAnySubscriber(s, subscriber, channel) == {d \in s : d.channel = channel}

Matching(s, subscriber, channel) ==
    {d \in s : d.subscriber = subscriber /\ d.channel = channel}

\* Subscription.findOne({ channel, subscriber }): a matching document, or null
FindOneNothing(s, subscriber, channel) == {NullDoc}

FindOne(s, subscriber, channel) ==
    IF Matching(s, subscriber, channel) = {} THEN {NullDoc}
    ELSE Matching(s, subscriber, channel)

\* Subscription.deleteOne({ _id }): the store afterwards and the result object
DeleteOneByChannel(s, id) ==
    {d \in s : \A e \in s : e._id = id => d.channel # e.channel}

DeleteOneStore(s, id) == {d \in s : d._id # id}

DeleteOneResult(s, id) ==
    [acknowledged |-> TRUE, deletedCount |-> Cardinality({d \in s : d._id = id})]

\* whether the Subscription schema declares a unique index on (subscriber, channel)
SubscriberChannelUnique == FALSE

\* Subscription.create(doc) is rejected (duplicate key) under a unique index
CreateRejected(s, doc) ==
    SubscriberChannelUnique /\ Matching(s, doc.subscriber, doc.channel) # {}

(* ---------------------------------------------------- suspended requests *)

RECURSIVE CountIn(_, _)
CountIn(B, S) ==
    IF S = {} THEN 0
    ELSE LET r == CHOOSE x \in S : TRUE
         IN  CopiesIn(r, B) + CountIn(B, S \ {r})

\* toggle requests suspended after a lookup that found nothing: each will create
PendingCreates ==
    CountIn(inflight, {r \in BagToSet(inflight) : r.pc = "looked" /\ r.existing = NullDoc})

Add(r) == inflight (+) SetToBag({r})
Remove(r) == inflight (-) SetToBag({r})

\* req.params.channelId of a suspended request, cast as the queries cast it
Channel(r) == CastObjectId(r.param.str)

\* ids that a document, or a request about to delete, refers to
UsedIds ==
    {d._id : d \in store}
        \cup {r.existing._id :
                r \in {q \in BagToSet(inflight) : q.pc = "looked" /\ q.existing # NullDoc}}

\* the _id of a new document: one nothing refers to
NewId == CHOOSE n \in 1..(MaxDocs + MaxInflight + 1) : n \notin UsedIds

NoResp == [op |-> "none"]

NoHistory == [status |-> 0, completed |-> 0, raced |-> FALSE]

(* ------------------------------------------------ checkSubscriptionStatus *)

\* the handler, given what its findOne resolves to
CheckResponse(requester, p, subscription) ==
    IF ~Truthy(p)
    THEN [op |-> "check", requester |-> requester, param |-> p, status |-> 400,
          message |-> "Channel id is required."]
    ELSE IF ~isValidObjectId(p)
    THEN [op |-> "check", requester |-> requester, param |-> p, status |-> 400,
          message |-> "Invalid channel id."]
    ELSE [op |-> "check", requester |-> requester, param |-> p, status |-> 200,
          isSubscribed |-> IsTruthy(subscription)]

\* quiet: the request is served while no toggle is suspended
checkSubscriptionStatus(requester, p, quiet) ==
    /\ resp = NoResp
    /\ quiet => inflight = EmptyBag
    /\ \E subscription \in FindOne(store, requester, CastObjectId(p.str)) :
           resp' = CheckResponse(requester, p, subscription)
    /\ UNCHANGED <<store, inflight, last>>

(* ----------------------------------------------- toggleSubscriptionStatus *)

\* the two validation failures: the handler throws before its first await
ToggleInvalid(requester, p) ==
    /\ resp = NoResp /\ inflight = EmptyBag
    /\ ~Truthy(p) \/ ~isValidObjectId(p)
    /\ resp' = [op |-> "toggle", requester |-> requester, param |-> p, status |-> 400,
                message |-> IF ~Truthy(p) THEN "Channel id is required."
                            ELSE "Invalid channel id."]
    /\ UNCHANGED <<store, inflight, last>>

\* a toggle of the same requester on the same channel is suspended
Overlaps(requester, p) ==
    \E q \in BagToSet(inflight) : q.requester = requester /\ Channel(q) = CastObjectId(p.str)

\* validation passes and findOne resolves; the request is suspended with its result.
\* alone: the request arrives while no other toggle is suspended;
\* track: record in last that it overlaps another toggle of its pair
ToggleFindOne(requester, p, alone, track) ==
    /\ resp = NoResp
    /\ alone => inflight = EmptyBag
    /\ Truthy(p) /\ isValidObjectId(p)
    /\ BagCardinality(inflight) < MaxInflight
    /\ \E existingSubscription \in FindOne(store, requester, CastObjectId(p.str)) :
           /\ existingSubscription = NullDoc
                  => Cardinality(store) + PendingCreates < MaxDocs
           /\ inflight' = Add([requester |-> requester,
                               param |-> p,
                               pc |-> "looked",
                               existing |-> existingSubscription,
                               result |-> NullDoc])
    /\ last' = IF track /\ Overlaps(requester, p)
               THEN [last EXCEPT ![<<requester, CastObjectId(p.str)>>].raced = TRUE]
               ELSE last
    /\ resp' = NoResp
    /\ UNCHANGED store

\* if (existingSubscription): deleteOne({ _id: existingSubscription._id }) takes effect
ToggleDeleteOne(r) ==
    /\ resp = NoResp
    /\ r.pc = "looked" /\ IsTruthy(r.existing)
    /\ store' = DeleteOneStore(store, r.existing._id)
    /\ inflight' = Remove(r) (+) SetToBag({[r EXCEPT
                       !.pc = "deleted",
                       !.result = DeleteOneResult(store, r.existing._id)]})
    /\ resp' = NoResp
    /\ UNCHANGED last

\* else: Subscription.create({ channel, subscriber }) takes effect
ToggleCreate(r) ==
    /\ resp = NoResp
    /\ r.pc = "looked" /\ ~IsTruthy(r.existing)
    /\ LET subscription == [_id |-> NewId, subscriber |-> r.requester, channel |-> Channel(r)]
       IN  IF CreateRejected(store, subscription)
           THEN /\ store' = store
                /\ inflight' = Remove(r) (+) SetToBag({[r EXCEPT !.pc = "rejected"]})
           ELSE /\ store' = store \cup {subscription}
                /\ inflight' = Remove(r) (+) SetToBag({[r EXCEPT
                                   !.pc = "created", !.result = subscription]})
    /\ resp' = NoResp
    /\ UNCHANGED last

\* the response of the unsubscribe branch, given what deleteOne resolved to
UnsubscribeResponse(r) ==
    IF ~IsTruthy(r.result)
    THEN [op |-> "toggle", requester |-> r.requester, param |-> r.param, status |-> 500,
          message |-> "Subscription not found or already unsubscribed."]
    ELSE [op |-> "toggle", requester |-> r.requester, param |-> r.param, status |-> 200,
          isSubscribed |-> FALSE]

\* the response of the subscribe branch, given what create resolved to
SubscribeResponse(r) ==
    IF ~IsTruthy(r.result)
    THEN [op |-> "toggle", requester |-> r.requester, param |-> r.param, status |-> 500,
          message |-> "Internal Server Error: Subscription could not be created."]
    ELSE [op |-> "toggle", requester |-> r.requester, param |-> r.param, status |-> 201,
          isSubscribed |-> TRUE]

\* create threw: the error reaches the error handler as it is
RejectedResponse(r) ==
    [op |-> "toggle", requester |-> r.requester, param |-> r.param, status |-> 500,
     message |-> "E11000 duplicate key error"]

ToggleResponse(r) ==
    IF r.pc = "deleted" THEN UnsubscribeResponse(r)
    ELSE IF r.pc = "created" THEN SubscribeResponse(r)
    ELSE RejectedResponse(r)

\* the request resumes after its write and answers; track: record the answer in last
ToggleRespond(r, track) ==
    /\ resp = NoResp
    /\ r.pc \in {"deleted", "created", "rejected"}
    /\ resp' = ToggleResponse(r)
    /\ last' = IF track
               THEN [last EXCEPT ![<<r.requester, Channel(r)>>] =
                        [@ EXCEPT !.status = ToggleResponse(r).status,
                                  !.completed = (@ + 1) % 2]]
               ELSE last
    /\ inflight' = Remove(r)
    /\ UNCHANGED store

(* ---------------------------------------------------------- query values *)

\* userId query parameters the listing requests carry
UserIdParams == {Absent, Given(IdAlice), Given("00000000000000000000000B"), Given("000000000000")}

\* page and limit arrive as strings of digits; search as a string
PageParams == {Absent, Given("2")}
LimitParams == {Absent, Given("1"), Given("2")}
SearchParams == {Absent, Given(""), Given("O"), Given("n")}

DigitValue(ch) ==
    CASE ch = "0" -> 0 [] ch = "1" -> 1 [] ch = "2" -> 2 [] ch = "3" -> 3 [] ch = "4" -> 4
      [] ch = "5" -> 5 [] ch = "6" -> 6 [] ch = "7" -> 7 [] ch = "8" -> 8 [] ch = "9" -> 9

\* the number a string of digits denotes (arithmetic coercion and parseInt agree on it)
RECURSIVE ToNumber(_)
ToNumber(s) ==
    IF s = <<>> THEN 0 ELSE 10 * ToNumber(SubSeq(s, 1, Len(s) - 1)) + DigitValue(s[Len(s)])

\* const { page = 1, limit = 10, search = "" } = req.query
PageOf(page) == IF page.given THEN ToNumber(Chars(page.str)) ELSE 1
LimitOf(limit) == IF limit.given THEN ToNumber(Chars(limit.str)) ELSE 10
SearchOf(search) == IF search.given THEN search.str ELSE ""

\* userId || requestingUserId, as the queries cast it
TargetUserId(requester, userId) ==
    IF Truthy(userId) THEN CastObjectId(userId.str) ELSE requester

\* new mongoose.Types.ObjectId(undefined) generates an id: one no document has
GeneratedObjectId == "ffffffffffffffffffffffff"

\* new mongoose.Types.ObjectId(userId)
NewObjectId(userId) == IF userId.given THEN CastObjectId(userId.str) ELSE GeneratedObjectId

\* Math.ceil(a / b) for a >= 0 and b > 0
MathCeilFloor(a, b) == a \div b

MathCeil(a, b) == IF a % b = 0 THEN a \div b ELSE (a \div b) + 1

Min(a, b) == IF a < b THEN a ELSE b

\* the orders in which a pipeline without $sort may deliver a set of documents
Orders(S) ==
    {f \in [1..Cardinality(S) -> S] : \A i, j \in 1..Cardinality(S) : f[i] = f[j] => i = j}

\* $skip, $limit
SkipStage(rows, n) == SubSeq(rows, n + 1, Len(rows))
LimitStage(rows, n) == SubSeq(rows, 1, Min(n, Len(rows)))

\* the User document with an _id ($lookup from users, then $unwind: none drops the row)
UserById(id) == {u \in Users : u._id = id}
HasUser(id) == UserById(id) # {}
TheUser(id) == CHOOSE u \in Users : u._id = id

\* { $regex: search, $options: "i" } for a search without metacharacters
RegexMatch(str, search) ==
    \E i \in 0..(Len(Chars(str)) - Len(Chars(search))) :
        \A j \in 1..Len(Chars(search)) :
            LowerChar(Chars(str)[i + j]) = LowerChar(Chars(search)[j])

\* $or: [ fullName matches, username matches ]
MatchesSearch(u, search) == RegexMatch(u.fullName, search) \/ RegexMatch(u.username, search)

(* ---------------------------------------------- getChannelSubscribersList *)

\* $lookup subscribers, $unwind, $lookup subscriber_details, $unwind, $project
SubscriberRows(ord) ==
    LET joined == SelectSeq(ord, LAMBDA d : HasUser(d.subscriber))
    IN  [i \in 1..Len(joined) |->
            [subscriber |-> TheUser(joined[i].subscriber)._id,
             username |-> TheUser(joined[i].subscriber).username,
             fullName |-> TheUser(joined[i].subscriber).fullName]]

\* $match { _id: new ObjectId(userId) } on users, then the edges of that channel
SubscribersOfMatched(s, userId) ==
    IF HasUser(NewObjectId(userId)) THEN {d \in s : d.channel = NewObjectId(userId)} ELSE {}

SubscribersResponse(requester, userId, rows) ==
    IF Len(rows) = 0
    THEN [op |-> "subscribers", requester |-> requester, userId |-> userId, status |-> 404,
          message |-> "No subscribers found for this channel."]
    ELSE [op |-> "subscribers", requester |-> requester, userId |-> userId, status |-> 200,
          data |-> rows]

getChannelSubscribersList(requester, userId) ==
    /\ resp = NoResp /\ inflight = EmptyBag
    /\ \E ord \in Orders(SubscribersOfMatched(store, userId)) :
           resp' = SubscribersResponse(requester, userId, SubscriberRows(ord))
    /\ UNCHANGED <<store, inflight, last>>

(* ---------------------------------------------- getUserSubscribedChannels *)

\* Subscription.countDocuments({ subscriber: targetUserId })
CountDocuments(s, target) == Cardinality({d \in s : d.subscriber = target})

\* $match { subscriber }: the edges the pipelines start from
EdgesOf(s, target) == {d \in s : d.subscriber = target}

\* $lookup channelDetails, $unwind, [$match search,] $lookup subscribers, $project
ChannelRows(s, ord, search) ==
    LET joined == SelectSeq(ord, LAMBDA d : HasUser(d.channel))
        kept == SelectSeq(joined, LAMBDA d : MatchesSearch(TheUser(d.channel), search))
    IN  [i \in 1..Len(kept) |->
            [_id |-> TheUser(kept[i].channel)._id,
             username |-> TheUser(kept[i].channel).username,
             fullName |-> TheUser(kept[i].channel).fullName,
             totalSubscribers |-> Cardinality({e \in s : e.channel = kept[i].channel})]]

\* Subscription.find({ subscriber: requestingUserId, channel: { $in: channelIds } }),
\* collected into the set of their channels
SubscribedByTarget(s, requester, target, channelIds) ==
    {d.channel : d \in {e \in s : e.subscriber = target /\ e.channel \in channelIds}}

SubscribedByMeSet(s, requester, target, channelIds) ==
    {d.channel : d \in {e \in s : e.subscriber = requester /\ e.channel \in channelIds}}

\* the page: rows after $skip and $limit, each with isSubscribedByMe
PageOfRows(s, requester, target, rows, page, limit) ==
    LET paged == LimitStage(SkipStage(rows, (PageOf(page) - 1) * LimitOf(limit)),
                            LimitOf(limit))
        mine == SubscribedByMeSet(s, requester, target, {paged[i]._id : i \in 1..Len(paged)})
    IN  [i \in 1..Len(paged) |->
            [_id |-> paged[i]._id,
             username |-> paged[i].username,
             fullName |-> paged[i].fullName,
             totalSubscribers |-> paged[i].totalSubscribers,
             isSubscribedByMe |-> paged[i]._id \in mine]]

\* the handler on a store that stays as it is while the handler reads it, given the
\* order in which the aggregation delivers the target's edges
SubscribedResponse(s, requester, userId, page, limit, ord) ==
    [op |-> "subscribed", requester |-> requester, userId |-> userId,
     page |-> page, limit |-> limit, status |-> 200,
     subscribedChannels |->
         PageOfRows(s, requester, TargetUserId(requester, userId),
                    ChannelRows(s, ord, ""), page, limit),
     currentPage |-> PageOf(page),
     totalPages |-> MathCeil(CountDocuments(s, TargetUserId(requester, userId)),
                             LimitOf(limit)),
     totalSubscribedChannels |-> CountDocuments(s, TargetUserId(requester, userId))]

getUserSubscribedChannels(requester, userId, page, limit) ==
    /\ resp = NoResp /\ inflight = EmptyBag
    /\ \E ord \in Orders(EdgesOf(store, TargetUserId(requester, userId))) :
           resp' = SubscribedResponse(store, requester, userId, page, limit, ord)
    /\ UNCHANGED <<store, inflight, last>>

(* ----------------------------------------------- searchSubscribedChannels *)

\* the first aggregation, ending in $count: totalSubscribedChannels[0]?.count || 0
SearchCount(s, target, search) ==
    Cardinality({d \in EdgesOf(s, target) :
                    HasUser(d.channel) /\ MatchesSearch(TheUser(d.channel), search)})

SearchResponse(s, requester, userId, search, page, limit, ord) ==
    [op |-> "search", requester |-> requester, userId |-> userId, search |-> search,
     page |-> page, limit |-> limit, status |-> 200,
     subscribedChannels |->
         PageOfRows(s, requester, TargetUserId(requester, userId),
                    ChannelRows(s, ord, SearchOf(search)), page, limit),
     currentPage |-> PageOf(page),
     totalPages |-> MathCeil(SearchCount(s, TargetUserId(requester, userId),
                                         SearchOf(search)),
                             LimitOf(limit)),
     totalSubscribedChannels |->
         SearchCount(s, TargetUserId(requester, userId), SearchOf(search))]

searchSubscribedChannels(requester, userId, search, page, limit) ==
    /\ resp = NoResp /\ inflight = EmptyBag
    /\ \E ord \in Orders(EdgesOf(store, TargetUserId(requester, userId))) :
           resp' = SearchResponse(store, requester, userId, search, page, limit, ord)
    /\ UNCHANGED <<store, inflight, last>>

(* ------------------------------------------------------------- responses *)

\* res.status(..).json(..) or the error handler has sent the response of the last step
Send ==
    /\ resp # NoResp
    /\ resp' = NoResp
    /\ UNCHANGED <<store, inflight, last>>

(* --------------------------------------------------------- specifications *)

Init ==
    /\ store = {}
    /\ inflight = EmptyBag
    /\ resp = NoResp
    /\ last = [pr \in Pairs |-> NoHistory]

\* toggles arrive at any time and interleave at their awaits
Next ==
    \/ \E requester \in Requesters, p \in ChannelParams :
           checkSubscriptionStatus(requester, p, TRUE)
    \/ \E requester \in Requesters, userId \in UserIdParams :
           getChannelSubscribersList(requester, userId)
    \/ \E requester \in Requesters, userId \in UserIdParams,
          page \in PageParams, limit \in LimitParams :
           getUserSubscribedChannels(requester, userId, page, limit)
    \/ \E requester \in Requesters, userId \in UserIdParams, search \in SearchParams,
          page \in PageParams, limit \in LimitParams :
           searchSubscribedChannels(requester, userId, search, page, limit)
    \/ \E requester \in Requesters, p \in ChannelParams : ToggleInvalid(requester, p)
    \/ \E requester \in Requesters, p \in ChannelParams :
           ToggleFindOne(requester, p, FALSE, FALSE)
    \/ \E r \in BagToSet(inflight) : ToggleDeleteOne(r)
    \/ \E r \in BagToSet(inflight) : ToggleCreate(r)
    \/ \E r \in BagToSet(inflight) : ToggleRespond(r, FALSE)
    \/ Send

Spec == Init /\ [][Next]_vars

\* no overlapping requests: a request arrives only when none is suspended
NextSeq ==
    \/ \E requester \in Requesters, p \in ChannelParams :
           checkSubscriptionStatus(requester, p, TRUE)
    \/ \E requester \in Requesters, p \in ChannelParams : ToggleInvalid(requester, p)
    \/ \E requester \in Requesters, p \in ChannelParams :
           ToggleFindOne(requester, p, TRUE, TRUE)
    \/ \E r \in BagToSet(inflight) : ToggleDeleteOne(r)
    \/ \E r \in BagToSet(inflight) : ToggleCreate(r)
    \/ \E r \in BagToSet(inflight) : ToggleRespond(r, TRUE)
    \/ Send

SpecSeq == Init /\ [][NextSeq]_vars

\* the requests of SpecHist: both requesters, one channel
HistParams == {Given("00000000000000000000000B")}

\* toggles interleave as in Spec, status checks are served at any time, and last
\* records the history of the toggles
NextHist ==
    \/ \E requester \in Requesters, p \in HistParams :
           checkSubscriptionStatus(requester, p, FALSE)
    \/ \E requester \in Requesters, p \in HistParams :
           ToggleFindOne(requester, p, FALSE, TRUE)
    \/ \E r \in BagToSet(inflight) : ToggleDeleteOne(r)
    \/ \E r \in BagToSet(inflight) : ToggleCreate(r)
    \/ \E r \in BagToSet(inflight) : ToggleRespond(r, TRUE)
    \/ Send

SpecHist == Init /\ [][NextHist]_vars

(* ----------------------------------------------------------------- claims *)

\* the documents of a (subscriber, channel) pair
EdgesOfPair(s, subscriber, channel) ==
    {d \in s : d.subscriber = subscriber /\ d.channel = channel}

\* a channelId that is missing or that no ObjectId can be cast from
Malformed(p) == ~p.given \/ CastObjectId(p.str) = Null

\* C1: every reachable store holds at most one edge per (subscriber, channel) pair,
\* also when toggles of the same requester on the same channel interleave.
OneEdgePerPair ==
    \A d, e \in store : d.subscriber = e.subscriber /\ d.channel = e.channel => d = e

\* C2: a toggle that found an edge and whose deleteOne removed nothing answers 500,
\* not 200 with isSubscribed false.
StaleDeleteFails ==
    [][\A r \in BagToSet(inflight) :
           (r.pc = "deleted" /\ r.result.deletedCount = 0 /\ inflight' = Remove(r))
               => (resp'.op = "toggle" /\ resp'.status = 500)]_vars

\* the history of the pair a check response is about
HistoryOfCheck == last[<<resp.requester, CastObjectId(resp.param.str)>>]

\* C3 as stated: a check by A on B answers isSubscribed true when A's most recent
\* completed toggle on B answered 201, and false when it answered 200.
CheckFollowsLastToggle ==
    (resp.op = "check" /\ resp.status = 200)
        => /\ HistoryOfCheck.status = 201 => resp.isSubscribed
           /\ HistoryOfCheck.status = 200 => ~resp.isSubscribed

\* C3 as amended: the same, for a pair (A, B) no two toggles of which ever overlapped
\* and none of which is suspended when the check runs.
CheckFollowsLastToggleUnraced ==
    (/\ resp.op = "check" /\ resp.status = 200
     /\ ~HistoryOfCheck.raced
     /\ ~Overlaps(resp.requester, resp.param))
        => /\ HistoryOfCheck.status = 201 => resp.isSubscribed
           /\ HistoryOfCheck.status = 200 => ~resp.isSubscribed

\* a check ran after a successful unsubscribe of a pair whose toggles never overlapped,
\* while toggles of the other requester, which did overlap, are suspended
CheckedAfterUnsubscribe ==
    /\ resp.op = "check" /\ resp.status = 200
    /\ HistoryOfCheck.status = 200 /\ ~HistoryOfCheck.raced
    /\ ~Overlaps(resp.requester, resp.param)
    /\ inflight # EmptyBag
    /\ \E pr \in Pairs : last[pr].raced

\* C4: with no overlapping requests a toggle flips the presence of its edge: absent at
\* the lookup, it creates exactly one edge and answers 201 with isSubscribed true;
\* present, it deletes it and answers 200 with isSubscribed false; so after an even
\* number of toggles of a pair the pair has no edge, as at the start, and after an odd
\* number it has one.
ToggleFlips ==
    [][/\ \A r \in BagToSet(inflight') :
              r.pc = "looked"
                  => (r.existing = NullDoc
                          <=> EdgesOfPair(store', r.requester, Channel(r)) = {})
       /\ \A r \in BagToSet(inflight) :
              inflight' = Remove(r)
                  => /\ resp'.op = "toggle"
                     /\ IF r.existing = NullDoc
                        THEN /\ resp'.status = 201 /\ resp'.isSubscribed
                             /\ Cardinality(EdgesOfPair(store', r.requester, Channel(r))) = 1
                        ELSE /\ resp'.status = 200 /\ ~resp'.isSubscribed
                             /\ EdgesOfPair(store', r.requester, Channel(r)) = {}
       /\ inflight' = EmptyBag
              => \A pr \in Pairs :
                     Cardinality(EdgesOfPair(store', pr[1], pr[2])) = last'[pr].completed
      ]_vars

\* a second toggle of a pair has just answered 200: the pair is back without an edge
ToggledTwice ==
    /\ resp.op = "toggle" /\ resp.status = 200
    /\ last[<<resp.requester, CastObjectId(resp.param.str)>>].completed = 0
    /\ EdgesOfPair(store, resp.requester, CastObjectId(resp.param.str)) = {}
    /\ store # {}

\* C5: a status check or a toggle whose channelId is missing or malformed answers 400
\* in the step it arrives in, with no lookup issued and the store as it was; no such
\* request is ever suspended at a store access.
InvalidInputFirst ==
    [][/\ \A r \in BagToSet(inflight') : ~Malformed(r.param)
       /\ (resp'.op \in {"check", "toggle"} /\ Malformed(resp'.param))
              => (resp'.status = 400 /\ store' = store /\ inflight' = inflight)
      ]_vars

\* a toggle with a 24-character channelId that is not hexadecimal was refused while
\* the store held an edge
RefusedMalformed ==
    /\ resp.op = "toggle" /\ resp.status = 400
    /\ resp.param = Given("00000000000000000000000z")
    /\ store # {}

\* the user a listing is about: the userId of the query when given, else the requester
TargetOf(r) == IF r.userId.given THEN CastObjectId(r.userId.str) ELSE r.requester

\* C6: getChannelSubscribersList, for a target (userId, else the requester) that is a
\* user, answers 404 exactly when the target has no subscriber, and otherwise 200 with
\* one summary per edge whose channel is the target, each of that edge's subscriber.
SubscribersOfTarget ==
    (resp.op = "subscribers" /\ HasUser(TargetOf(resp)))
        => LET edges == {d \in store : d.channel = TargetOf(resp)}
           IN  /\ resp.status = 404 <=> edges = {}
               /\ resp.status = 200
                      => /\ Len(resp.data) = Cardinality(edges)
                         /\ {resp.data[i].subscriber : i \in 1..Len(resp.data)}
                                = {d.subscriber : d \in edges}

\* C7: for the same requester, userId and limit, on the same store, search with an empty
\* search string reports the totalSubscribedChannels and totalPages of the listing.
SearchEmptyCountsAsListing ==
    \A requester \in Requesters, userId \in UserIdParams, limit \in LimitParams,
       search \in {Absent, Given("")} :
        \A ord \in Orders(EdgesOf(store, TargetUserId(requester, userId))) :
            LET listed == SubscribedResponse(store, requester, userId, Absent, limit, ord)
                found == SearchResponse(store, requester, userId, search, Absent, limit, ord)
            IN  /\ found.totalSubscribedChannels = listed.totalSubscribedChannels
                /\ found.totalPages = listed.totalPages

\* the edges a listing or a search counts: those of the target, for a search those
\* whose channel is a user the search matches
CountedEdges(r) ==
    IF r.op = "subscribed" THEN {d \in store : d.subscriber = TargetOf(r)}
    ELSE {d \in store :
            /\ d.subscriber = TargetOf(r)
            /\ \E u \in Users : u._id = d.channel /\ MatchesSearch(u, SearchOf(r.search))}

\* C8: a listing or search answers 200 with totalSubscribedChannels the number of edges
\* it counts and totalPages the least number of pages of limit rows that hold them
\* (the ceiling of their quotient); a target without edges gets an empty page, 0 and 0.
PagesCoverTotal ==
    resp.op \in {"subscribed", "search"}
        => /\ resp.status = 200
           /\ resp.totalSubscribedChannels = Cardinality(CountedEdges(resp))
           /\ resp.totalPages >= 0
           /\ resp.totalPages * LimitOf(resp.limit) >= resp.totalSubscribedChannels
           /\ (resp.totalPages - 1) * LimitOf(resp.limit) < resp.totalSubscribedChannels
           /\ {d \in store : d.subscriber = TargetOf(resp)} = {}
                  => /\ resp.subscribedChannels = <<>>
                     /\ resp.totalPages = 0
                     /\ resp.totalSubscribedChannels = 0

\* a listing of one edge with limit 2 answered one page, and one of two edges with
\* limit 1 would answer two
OnePageForOneEdge ==
    /\ resp.op \in {"subscribed", "search"}
    /\ resp.totalSubscribedChannels = 1
    /\ LimitOf(resp.limit) = 2
    /\ resp.totalPages = 1

\* C9: in every row of a page, isSubscribedByMe tells whether the store holds an edge
\* from the requester (not the target) to the row's channel, and totalSubscribers is
\* the number of edges to that channel.
RowsTellRequesterEdges ==
    resp.op \in {"subscribed", "search"}
        => \A i \in 1..Len(resp.subscribedChannels) :
               LET row == resp.subscribedChannels[i]
               IN  /\ row.isSubscribedByMe
                          <=> (\E d \in store :
                                   d.subscriber = resp.requester /\ d.channel = row._id)
                   /\ row.totalSubscribers
                          = Cardinality({d \in store : d.channel = row._id})

\* a requester listed another user's channels and is not subscribed to a returned one
ListedChannelNotMine ==
    /\ resp.op \in {"subscribed", "search"}
    /\ TargetOf(resp) # resp.requester
    /\ \E i \in 1..Len(resp.subscribedChannels) :
           /\ ~resp.subscribedChannels[i].isSubscribedByMe
           /\ resp.subscribedChannels[i].totalSubscribers = 1

\* C10: a step that changes the store is a write of one suspended toggle and adds or
\* removes only edges from that toggle's requester to that toggle's channelId; the
\* steps of the four read handlers leave the store as it is.
OnlyOwnEdge ==
    [][/\ resp'.op \in {"check", "subscribers", "subscribed", "search"} => store' = store
       /\ store' # store
              => \E r \in BagToSet(inflight) :
                     /\ r.pc = "looked"
                     /\ CopiesIn(r, inflight') < CopiesIn(r, inflight)
                     /\ \A d \in (store \ store') \cup (store' \ store) :
                            /\ d.subscriber = r.requester
                            /\ d.channel = CastObjectId(r.param.str)
      ]_vars

\* a toggle unsubscribed its requester from a channel another user stays subscribed to
UnsubscribedBesideOther ==
    /\ resp.op = "toggle" /\ resp.status = 200
    /\ \E d \in store :
           /\ d.channel = CastObjectId(resp.param.str)
           /\ d.subscriber # resp.requester

====
